---- MODULE Spec2Model ----
(***************************************************************************)
(* Pinched: a bistable hysteretic element (src/services/physicsEngine.ts)  *)
(* used as a one-bit memory cell (src/unnamed/part_004, part_005) and the  *)
(* Mackey-Glass generator that drives it in reservoir mode.                *)
(*                                                                         *)
(* Numbers.  The source computes in IEEE doubles; the model computes in    *)
(* exact integers on fixed grids:                                          *)
(*   voltage    in 1/VScale volt            (1.1 V      -> 110)            *)
(*   frequency  in 1/(100*VScale) kHz       (103.28 kHz -> 1032800)        *)
(*   amplitude  in 1/(10*VScale^2) mV       (17.5 mV    -> 1750000)        *)
(*   generator  in 1/GScale                 (1.2        -> 1200)           *)
(* Every comparison the source makes between voltages is a comparison of   *)
(* decimal literals or slider values with two decimals, all of which lie   *)
(* on the voltage grid.                                                    *)
(***************************************************************************)
EXTENDS Integers, Sequences, FiniteSets, TLC

VARIABLES simState, calls, scen, writeRead, trig, gen, genObs, genPast,
          weights, roObs,
          isSweeping, resState, reservoirData, mse, currentWeights,
          loops, resObs,
          bits, built, isAutoPlaying

memVars == <<simState, calls, scen, writeRead, trig>>
genVars == <<gen, genObs, genPast>>
roVars  == <<weights, roObs>>
resVars == <<isSweeping, resState, reservoirData, mse, currentWeights,
             loops, resObs>>

bitVars == <<bits>>
cfgVars == <<built>>
sweepVars == <<isAutoPlaying>>

vars == <<memVars, genVars, roVars, resVars, bitVars, cfgVars, sweepVars>>

(***************************************************************************)
(* Units and bounds                                                        *)
(***************************************************************************)
VScale == 100

\* voltages offered to the slider: multiples of DriveGrid, the values next
\* to the two thresholds, and Overdrive beyond either end of the range
DriveGrid == 50
Overdrive == 50

\* generator values are kept in 1/GScale; next() is called at most MaxCalls
\* times between two resets
GScale == 1000
MaxCalls == 120
MaxResets == 2

\* readout values (inputs, targets, weights, errors) are kept in 1/GScale;
\* train() is called at most MaxTrain times with arbitrary samples, and at
\* most MaxRepeat times when every call since construction or reset used the
\* same sample
MaxTrain == 3
MaxRepeat == 40

\* the reservoir loop runs at most MaxSteps animation frames between two
\* resets; its effect is run again at most MaxReruns times and its pipeline
\* reset at most MaxPipelineResets times; left alone, it runs at most
\* MaxFrames frames
MaxSteps == 6
MaxFrames == 60
MaxReruns == 1
MaxPipelineResets == 1

(***************************************************************************)
(* CONSTANTS (src/unnamed/part_000:22-49), the version of types.ts whose   *)
(* fields physicsEngine.ts reads (FREQ_LOWER_BASE, AMP_LOWER_QUAD, ...).   *)
(* Voltages in 1/VScale V, frequency bases in 1/100 kHz, FREQ_SLOPE in     *)
(* 1/100 kHz/V, amplitude coefficients in 1/10 mV.                         *)
(***************************************************************************)
VOLTAGE_MIN == -150
VOLTAGE_MAX == 150
THRESHOLD_UP == 110
THRESHOLD_DOWN == -90
FREQ_LOWER_BASE == 10328
FREQ_UPPER_BASE == 10336
FREQ_SLOPE == 3
AMP_LOWER_QUAD == -25
AMP_LOWER_LIN == 50
AMP_LOWER_CONST == 175
AMP_UPPER_QUAD == -25
AMP_UPPER_LIN == -50
AMP_UPPER_CONST == 175

Branch == {"upper", "lower"}
Direction == {"increasing", "decreasing", "stationary"}

(***************************************************************************)
(* Response model (physicsEngine.ts:9-34)                                  *)
(***************************************************************************)
calculateFrequency_slopeByBranch(voltage, branch) ==
    LET base == IF branch = "upper" THEN FREQ_UPPER_BASE ELSE FREQ_LOWER_BASE
        slope == IF branch = "upper" THEN 2 * FREQ_SLOPE ELSE FREQ_SLOPE
    IN  base * VScale + slope * voltage

\* lines 9-14
calculateFrequency(voltage, branch) ==
    LET base == IF branch = "upper" THEN FREQ_UPPER_BASE ELSE FREQ_LOWER_BASE
    IN  base * VScale + FREQ_SLOPE * voltage

calculateAmplitude_sameLin(voltage, branch) ==
    IF branch = "lower"
    THEN AMP_LOWER_QUAD * voltage * voltage
         + AMP_LOWER_LIN * voltage * VScale
         + AMP_LOWER_CONST * VScale * VScale
    ELSE AMP_UPPER_QUAD * voltage * voltage
         + AMP_LOWER_LIN * voltage * VScale
         + AMP_UPPER_CONST * VScale * VScale

calculateAmplitude_swappedLin(voltage, branch) ==
    IF branch = "lower"
    THEN AMP_LOWER_QUAD * voltage * voltage
         + AMP_UPPER_LIN * voltage * VScale
         + AMP_LOWER_CONST * VScale * VScale
    ELSE AMP_UPPER_QUAD * voltage * voltage
         + AMP_LOWER_LIN * voltage * VScale
         + AMP_UPPER_CONST * VScale * VScale

\* lines 20-34
calculateAmplitude(voltage, branch) ==
    IF branch = "lower"
    THEN AMP_LOWER_QUAD * voltage * voltage
         + AMP_LOWER_LIN * voltage * VScale
         + AMP_LOWER_CONST * VScale * VScale
    ELSE AMP_UPPER_QUAD * voltage * voltage
         + AMP_UPPER_LIN * voltage * VScale
         + AMP_UPPER_CONST * VScale * VScale

(***************************************************************************)
(* Hysteresis state machine (physicsEngine.ts:40-70)                       *)
(***************************************************************************)
direction_nonStrict(targetVoltage, prevVoltage) ==
    IF targetVoltage < prevVoltage THEN "decreasing"
    ELSE IF targetVoltage >= prevVoltage THEN "increasing"
    ELSE "stationary"

\* lines 47-50: direction of travel
direction(targetVoltage, prevVoltage) ==
    IF targetVoltage < prevVoltage THEN "decreasing"
    ELSE IF targetVoltage > prevVoltage THEN "increasing"
    ELSE "stationary"

newBranch_symmetric(branch, dir, targetVoltage) ==
    IF dir = "increasing" /\ targetVoltage >= -THRESHOLD_DOWN THEN "upper"
    ELSE IF dir = "decreasing" /\ targetVoltage <= THRESHOLD_DOWN THEN "lower"
    ELSE branch

newBranch_swappedThresholds(branch, dir, targetVoltage) ==
    IF dir = "increasing" /\ targetVoltage >= THRESHOLD_DOWN THEN "upper"
    ELSE IF dir = "decreasing" /\ targetVoltage <= THRESHOLD_UP THEN "lower"
    ELSE branch

newBranch_strict(branch, dir, targetVoltage) ==
    IF dir = "increasing" /\ targetVoltage > THRESHOLD_UP THEN "upper"
    ELSE IF dir = "decreasing" /\ targetVoltage < THRESHOLD_DOWN THEN "lower"
    ELSE branch

newBranch_sticky(branch, dir, targetVoltage) ==
    IF dir = "increasing" /\ targetVoltage >= THRESHOLD_UP THEN "upper"
    ELSE branch

\* lines 46, 55-61: the two triggers
newBranch(branch, dir, targetVoltage) ==
    IF dir = "increasing" /\ targetVoltage >= THRESHOLD_UP THEN "upper"
    ELSE IF dir = "decreasing" /\ targetVoltage <= THRESHOLD_DOWN THEN "lower"
    ELSE branch

stepSimulation_oldBranch(targetVoltage, currentState) ==
    LET dir == direction(targetVoltage, currentState.voltage)
        nb  == newBranch(currentState.branch, dir, targetVoltage)
    IN  [voltage   |-> targetVoltage,
         frequency |-> calculateFrequency(targetVoltage, currentState.branch),
         amplitude |-> calculateAmplitude(targetVoltage, currentState.branch),
         branch    |-> nb,
         direction |-> dir]

\* lines 40-70
stepSimulation(targetVoltage, currentState) ==
    LET dir == direction(targetVoltage, currentState.voltage)
        nb  == newBranch(currentState.branch, dir, targetVoltage)
    IN  [voltage   |-> targetVoltage,
         frequency |-> calculateFrequency(targetVoltage, nb),
         amplitude |-> calculateAmplitude(targetVoltage, nb),
         branch    |-> nb,
         direction |-> dir]

\* part_004:12-18
createInitialState ==
    [voltage   |-> 0,
     frequency |-> FREQ_LOWER_BASE * VScale,
     amplitude |-> calculateAmplitude(0, "lower"),
     branch    |-> "lower",
     direction |-> "stationary"]

(***************************************************************************)
(* The memory bit (part_004:9-60): one SimulationState driven by the       *)
(* slider, the two write buttons and the reset button.                     *)
(*   simState   the bit's SimulationState (bits[index])                    *)
(*   calls      observer: the stepSimulation calls made by the most recent *)
(*              handler, in order, each with its argument state and result *)
(*   scen       observer: how far the drives applied since construction or *)
(*              reset follow Scenario, and where the branch changed        *)
(*   writeRead  observer: per written value, the branch the last write     *)
(*              started from and what is read at 0 V after it              *)
(*   trig       observer: the kind of the last call since construction or  *)
(*              reset that moved up to or beyond THRESHOLD_UP ("up") or    *)
(*              down to or beyond THRESHOLD_DOWN ("down"), "none" if there *)
(*              was no such call                                           *)
(***************************************************************************)
Abs(x) == IF x < 0 THEN -x ELSE x

\* values the slider (part_004:138-146) can hand to handleBitVoltageChange
Drives ==
    {v \in (VOLTAGE_MIN - Overdrive)..(VOLTAGE_MAX + Overdrive) :
        \/ v % DriveGrid = 0
        \/ Abs(v - THRESHOLD_UP) <= 1
        \/ Abs(v - THRESHOLD_DOWN) <= 1}

\* the drive sequence of the end-to-end scenario (spec.md section 8)
Scenario == <<0, 50, 100, 110, 110, 50, 0, -90, -90, -100, 0>>

Call(targetVoltage, currentState) ==
    [target |-> targetVoltage,
     before |-> currentState,
     after  |-> stepSimulation(targetVoltage, currentState)]

\* the observer trig after one more call c
TrigStep(t, c) ==
    IF c.target > c.before.voltage /\ c.target >= THRESHOLD_UP THEN "up"
    ELSE IF c.target < c.before.voltage /\ c.target <= THRESHOLD_DOWN THEN "down"
    ELSE t

ScenStart == [idx |-> 0, upAt |-> << >>, downAt |-> << >>]
ScenOff   == [idx |-> -1, upAt |-> << >>, downAt |-> << >>]

\* the observer after one more call c
ScenStep(s, c) ==
    IF s.idx >= 0 /\ s.idx < Len(Scenario) /\ Scenario[s.idx + 1] = c.target
    THEN [idx    |-> s.idx + 1,
          upAt   |-> IF c.before.branch = "lower" /\ c.after.branch = "upper"
                     THEN Append(s.upAt, s.idx + 1) ELSE s.upAt,
          downAt |-> IF c.before.branch = "upper" /\ c.after.branch = "lower"
                     THEN Append(s.downAt, s.idx + 1) ELSE s.downAt]
    ELSE ScenOff

NoWrite == [done |-> FALSE, from |-> "lower", branch |-> "lower", amplitude |-> 0]
WriteReadInit == [w \in {"0", "1"} |-> NoWrite]

MemInit ==
    /\ simState = createInitialState
    /\ calls = << >>
    /\ scen = ScenStart
    /\ writeRead = WriteReadInit
    /\ trig = "none"

\* part_004:25-31
handleBitVoltageChange(newVoltage) ==
    LET c == Call(newVoltage, simState)
    IN  /\ simState' = c.after
        /\ calls' = <<c>>
        /\ scen' = ScenStep(scen, c)
        /\ trig' = TrigStep(trig, c)
        /\ UNCHANGED <<bitVars, cfgVars, sweepVars, writeRead, genVars, roVars, resVars>>

pulseBit_weakPulse(targetValue) ==
    LET c1 == IF targetValue = "1"
              THEN Call(100, simState)
              ELSE Call(-100, simState)
        c2 == Call(0, c1.after)
    IN  /\ simState' = c2.after
        /\ calls' = <<c1, c2>>
        /\ scen' = ScenStep(ScenStep(scen, c1), c2)
        /\ trig' = TrigStep(TrigStep(trig, c1), c2)
        /\ writeRead' = [writeRead EXCEPT ![targetValue] =
                            [done      |-> TRUE,
                             from      |-> simState.branch,
                             branch    |-> c2.after.branch,
                             amplitude |-> c2.after.amplitude]]
        /\ UNCHANGED <<bitVars, cfgVars, sweepVars, genVars, roVars, resVars>>

\* part_004:34-56
pulseBit(targetValue) ==
    LET c1 == IF targetValue = "1"
              THEN Call(150, simState)
              ELSE Call(-150, simState)
        c2 == Call(0, c1.after)
    IN  /\ simState' = c2.after
        /\ calls' = <<c1, c2>>
        /\ scen' = ScenStep(ScenStep(scen, c1), c2)
        /\ trig' = TrigStep(TrigStep(trig, c1), c2)
        /\ writeRead' = [writeRead EXCEPT ![targetValue] =
                            [done      |-> TRUE,
                             from      |-> simState.branch,
                             branch    |-> c2.after.branch,
                             amplitude |-> c2.after.amplitude]]
        /\ UNCHANGED <<bitVars, cfgVars, sweepVars, genVars, roVars, resVars>>

\* part_004:58-60
resetAll ==
    /\ simState' = createInitialState
    /\ calls' = << >>
    /\ scen' = ScenStart
    /\ writeRead' = WriteReadInit
    /\ trig' = "none"
    /\ UNCHANGED <<bitVars, cfgVars, sweepVars, genVars, roVars, resVars>>

(***************************************************************************)
(* Mackey-Glass generator (physicsEngine.ts:75-113)                        *)
(*   gen     the generator object: history, t, val                         *)
(*   genObs  observer: the number of next() calls since construction or    *)
(*           reset, their outputs in order, and the two values the last    *)
(*           call read (xt and xt_tau)                                     *)
(*   genPast observer: the number of reset() calls (counted up to          *)
(*           MaxResets) and the outputs of the run the last reset ended    *)
(* Doubles are replaced by integers in 1/GScale, every product and         *)
(* quotient truncated to that grid.                                        *)
(***************************************************************************)
beta == 2          \* 0.2, in tenths
gamma == 1         \* 0.1, in tenths
tau == 17
n == 10
SEED == 12         \* 1.2, in tenths
SEED_LEN == 200
HISTORY_CAP == 300

Seed == (SEED * GScale) \div 10

\* Math.pow(x, k) on the grid
RECURSIVE Pow(_, _)
Pow(x, k) == IF k = 0 THEN GScale ELSE (Pow(x, k - 1) * x) \div GScale

\* line 94: history[history.length - tau] || 1.2   (0-based index)
DelayedTerm(history) ==
    LET i == Len(history) - tau + 1
    IN  IF i \in DOMAIN history /\ history[i] # 0 THEN history[i] ELSE Seed

\* line 97
Delta(xt, xt_tau) ==
    (beta * xt_tau * GScale) \div (10 * (GScale + Pow(xt_tau, n)))
    - (gamma * xt) \div 10

\* constructor, lines 76-90
MackeyGlassGenerator ==
    [history |-> [i \in 1..SEED_LEN |-> Seed], t |-> 0, val |-> Seed]

GenObsInit == [calls |-> 0, outs |-> << >>, xt |-> Seed, xt_tau |-> Seed]

GenPastInit == [resets |-> 0, outs |-> << >>]

GenInit ==
    /\ gen = MackeyGlassGenerator
    /\ genObs = GenObsInit
    /\ genPast = GenPastInit

MackeyGlassNext_popNewest ==
    LET xt     == gen.val
        xt_tau == DelayedTerm(gen.history)
        val    == xt + Delta(xt, xt_tau)
        pushed == Append(gen.history, val)
    IN  /\ genObs.calls < MaxCalls
        /\ gen' = [gen EXCEPT
                     !.val = val,
                     !.history = IF Len(pushed) > HISTORY_CAP
                                 THEN SubSeq(pushed, 1, Len(pushed) - 1)
                                 ELSE pushed]
        /\ genObs' = [calls  |-> genObs.calls + 1,
                      outs   |-> Append(genObs.outs, val),
                      xt     |-> xt,
                      xt_tau |-> xt_tau]
        /\ UNCHANGED <<bitVars, cfgVars, sweepVars, memVars, genPast, roVars, resVars>>

MackeyGlassNext_pushesOld ==
    LET xt     == gen.val
        xt_tau == DelayedTerm(gen.history)
        val    == xt + Delta(xt, xt_tau)
        pushed == Append(gen.history, xt)
    IN  /\ genObs.calls < MaxCalls
        /\ gen' = [gen EXCEPT
                     !.val = val,
                     !.history = IF Len(pushed) > HISTORY_CAP
                                 THEN Tail(pushed) ELSE pushed]
        /\ genObs' = [calls  |-> genObs.calls + 1,
                      outs   |-> Append(genObs.outs, val),
                      xt     |-> xt,
                      xt_tau |-> xt_tau]
        /\ UNCHANGED <<bitVars, cfgVars, sweepVars, memVars, genPast, roVars, resVars>>

\* next(), lines 92-106
MackeyGlassNext ==
    LET xt     == gen.val
        xt_tau == DelayedTerm(gen.history)
        val    == xt + Delta(xt, xt_tau)
        pushed == Append(gen.history, val)
    IN  /\ genObs.calls < MaxCalls
        /\ gen' = [gen EXCEPT
                     !.val = val,
                     !.history = IF Len(pushed) > HISTORY_CAP
                                 THEN Tail(pushed) ELSE pushed]
        /\ genObs' = [calls  |-> genObs.calls + 1,
                      outs   |-> Append(genObs.outs, val),
                      xt     |-> xt,
                      xt_tau |-> xt_tau]
        /\ UNCHANGED <<bitVars, cfgVars, sweepVars, memVars, genPast, roVars, resVars>>

MackeyGlassReset_keepsVal ==
    /\ gen' = [history |-> [i \in 1..SEED_LEN |-> Seed], t |-> 0, val |-> gen.val]
    /\ genObs' = GenObsInit
    /\ genPast' = [resets |-> IF genPast.resets < MaxResets
                              THEN genPast.resets + 1 ELSE MaxResets,
                   outs   |-> genObs.outs]
    /\ UNCHANGED <<bitVars, cfgVars, sweepVars, memVars, roVars, resVars>>

\* reset(), lines 108-112
MackeyGlassReset ==
    /\ gen' = [history |-> [i \in 1..SEED_LEN |-> Seed], t |-> 0, val |-> Seed]
    /\ genObs' = GenObsInit
    /\ genPast' = [resets |-> IF genPast.resets < MaxResets
                              THEN genPast.resets + 1 ELSE MaxResets,
                   outs   |-> genObs.outs]
    /\ UNCHANGED <<bitVars, cfgVars, sweepVars, memVars, roVars, resVars>>

(***************************************************************************)
(* Readout layer (physicsEngine.ts:119-157)                                *)
(*   weights  ReadoutLayer.weights                                         *)
(*   roObs    observer of the last operation: its name, the weights it ran *)
(*            on and how they came about (origin), its arguments and       *)
(*            result; the number of train calls since construction or      *)
(*            reset, whether they all used the same sample, and the errors *)
(*            of the last two of them                                      *)
(* Doubles are replaced by integers in 1/GScale; a dot product is          *)
(* truncated once, a weight increment once.                                *)
(***************************************************************************)
learningRate == 2        \* 0.02, in hundredths
READOUT_SCALE == 20

ZeroWeights == <<0, 0, 0, 0>>

\* reservoirState/20, from amplitude units to the readout grid
Scaled(reservoirState) ==
    (reservoirState * GScale) \div (READOUT_SCALE * 10 * VScale * VScale)

\* features.reduce((sum, f, i) => sum + f * weights[i], 0)
Reduce(features, w) ==
    (features[1] * w[1] + features[2] * w[2]
     + features[3] * w[3] + features[4] * w[4]) \div GScale

\* predict(), lines 125-135
predict(w, input, reservoirState) ==
    LET features == <<GScale,
                      input,
                      Scaled(reservoirState),
                      (Scaled(reservoirState) * Scaled(reservoirState)) \div GScale>>
    IN  Reduce(features, w)

train_returnsPostUpdate(w, input, reservoirState, target) ==
    LET features == <<GScale,
                      input,
                      Scaled(reservoirState),
                      (Scaled(reservoirState) * Scaled(reservoirState)) \div GScale>>
        prediction == Reduce(features, w)
        error == target - prediction
        updated == [i \in 1..4 |->
                      w[i] + (learningRate * error * features[i]) \div (100 * GScale)]
    IN  [weights |-> updated, error |-> target - Reduce(features, updated)]

train_minus(w, input, reservoirState, target) ==
    LET features == <<GScale,
                      input,
                      Scaled(reservoirState),
                      (Scaled(reservoirState) * Scaled(reservoirState)) \div GScale>>
        prediction == Reduce(features, w)
        error == target - prediction
    IN  [weights |-> [i \in 1..4 |->
                        w[i] - (learningRate * error * features[i]) \div (100 * GScale)],
         error   |-> error]

train_errorTimesInput(w, input, reservoirState, target) ==
    LET features == <<GScale,
                      input,
                      Scaled(reservoirState),
                      (Scaled(reservoirState) * Scaled(reservoirState)) \div GScale>>
        prediction == Reduce(features, w)
        error == target - prediction
    IN  [weights |-> [i \in 1..4 |->
                        w[i] + (learningRate * error * input) \div (100 * GScale)],
         error   |-> error]

\* train(), lines 137-152: the new weights and the returned error
train(w, input, reservoirState, target) ==
    LET features == <<GScale,
                      input,
                      Scaled(reservoirState),
                      (Scaled(reservoirState) * Scaled(reservoirState)) \div GScale>>
        prediction == Reduce(features, w)
        error == target - prediction
    IN  [weights |-> [i \in 1..4 |->
                        w[i] + (learningRate * error * features[i]) \div (100 * GScale)],
         error   |-> error]

\* samples offered to the readout: inputs u, reservoir amplitudes A, targets
Inputs == {GScale \div 2, (12 * GScale) \div 10, 10 * GScale}
Amplitudes == {calculateAmplitude(VOLTAGE_MIN, "lower"), calculateAmplitude(VScale, "lower")}
Targets == {-(GScale \div 2), (12 * GScale) \div 10}

RoObsInit ==
    [op |-> "none", before |-> ZeroWeights, ranOn |-> "constructed",
     origin |-> "constructed",
     u |-> 0, A |-> 0, target |-> 0, out |-> 0,
     trains |-> 0, same |-> TRUE, sample |-> <<0, 0, 0>>,
     err |-> 0, prevErr |-> 0]

ReadoutInit ==
    /\ weights = ZeroWeights
    /\ roObs = RoObsInit

ReadoutPredict_updates(u, A) ==
    /\ weights' = train(weights, u, A, 0).weights
    /\ roObs' = [roObs EXCEPT !.op = "predict", !.before = weights,
                              !.ranOn = roObs.origin,
                              !.u = u, !.A = A, !.target = 0,
                              !.out = predict(weights, u, A)]
    /\ UNCHANGED <<bitVars, cfgVars, sweepVars, memVars, genVars, resVars>>

\* a predict(u, A) call
ReadoutPredict(u, A) ==
    /\ weights' = weights
    /\ roObs' = [roObs EXCEPT !.op = "predict", !.before = weights,
                              !.ranOn = roObs.origin,
                              !.u = u, !.A = A, !.target = 0,
                              !.out = predict(weights, u, A)]
    /\ UNCHANGED <<bitVars, cfgVars, sweepVars, memVars, genVars, resVars>>

\* a train(u, A, target) call
ReadoutTrain(u, A, target) ==
    LET r == train(weights, u, A, target)
    IN  /\ \/ roObs.trains < MaxTrain
           \/ /\ roObs.same
              /\ roObs.sample = <<u, A, target>>
              /\ roObs.trains < MaxRepeat
        /\ weights' = r.weights
        /\ roObs' = [op |-> "train", before |-> weights, ranOn |-> roObs.origin,
                     origin |-> "trained",
                     u |-> u, A |-> A, target |-> target, out |-> r.error,
                     trains |-> roObs.trains + 1,
                     same |-> \/ roObs.trains = 0
                              \/ roObs.same /\ roObs.sample = <<u, A, target>>,
                     sample |-> <<u, A, target>>,
                     err |-> r.error, prevErr |-> roObs.err]
        /\ UNCHANGED <<bitVars, cfgVars, sweepVars, memVars, genVars, resVars>>

ReadoutReset_keepsBias ==
    /\ weights' = <<weights[1], 0, 0, 0>>
    /\ roObs' = [RoObsInit EXCEPT !.op = "reset", !.before = weights,
                                  !.ranOn = roObs.origin,
                                  !.origin = IF roObs.origin = "trained"
                                             THEN "reset" ELSE roObs.origin]
    /\ UNCHANGED <<bitVars, cfgVars, sweepVars, memVars, genVars, resVars>>

\* reset(), lines 154-156
ReadoutReset ==
    /\ weights' = <<0, 0, 0, 0>>
    /\ roObs' = [RoObsInit EXCEPT !.op = "reset", !.before = weights,
                                  !.ranOn = roObs.origin,
                                  !.origin = IF roObs.origin = "trained"
                                             THEN "reset" ELSE roObs.origin]
    /\ UNCHANGED <<bitVars, cfgVars, sweepVars, memVars, genVars, resVars>>

(***************************************************************************)
(* Reservoir mode of App (src/unnamed/part_005:33-136, 166-177)            *)
(*   isSweeping, reservoirData, mse, currentWeights                        *)
(*            the React state of the same names                            *)
(*   resState the React state reservoirState                               *)
(*   loops    the animate closures that still have a frame or a timeout    *)
(*            pending: the reservoirState each captured when its effect    *)
(*            ran, whether it waits for its animation frame ("raf") or for *)
(*            its setTimeout ("timer"), and whether animationRef.current   *)
(*            holds its pending frame (ref)                                *)
(*   resObs   observer: the number of frames since the last reset, of      *)
(*            effect re-runs and of resets; of the last frame since the    *)
(*            last reset, the generator output, the drive, the state the   *)
(*            step produced, the amplitude handed to the readout and the   *)
(*            arguments of the train call; of the frame before it, the     *)
(*            generator output and the amplitude handed to the readout     *)
(* The module singletons mackeyGlass and readout are gen and weights; the  *)
(* observers genObs, genPast and roObs do not follow the calls made here.  *)
(* The state is taken from the moment reservoir mode has been selected.    *)
(***************************************************************************)
WINDOW_SIZE == 100

Drive_unclamped(u_t) ==
    ((u_t - GScale) * 4 * VScale) \div GScale + VScale \div 10

\* lines 69-70: (u_t - 1.0) * 4.0 + 0.1, clamped
Drive(u_t) ==
    LET voltage == ((u_t - GScale) * 4 * VScale) \div GScale + VScale \div 10
    IN  IF voltage < VOLTAGE_MIN THEN VOLTAGE_MIN
        ELSE IF voltage > VOLTAGE_MAX THEN VOLTAGE_MAX
        ELSE voltage

\* line 89: m * 0.95 + (error * error) * 0.05
MovingAverage(m, error) ==
    (95 * m + 5 * ((error * error) \div GScale)) \div 100

NoTrain == [kind |-> "none", input |-> 0, A |-> 0, target |-> 0]

ResObsInit ==
    [op |-> "none", steps |-> 0, reruns |-> 0, resets |-> 0,
     u |-> 0, drive |-> 0, stepped |-> createInitialState, A |-> 0,
     train |-> NoTrain, prevU |-> 0, prevA |-> 0]

\* the effect of lines 46-136 as it has run when reservoir mode is entered
StartLoop(live, captured) ==
    {[l EXCEPT !.ref = FALSE] : l \in live}
        \cup {[closure |-> captured, phase |-> "raf", ref |-> TRUE]}

\* lines 133-135: cancelAnimationFrame(animationRef.current)
Cleanup(live) == {l \in live : ~(l.phase = "raf" /\ l.ref)}

ResInit ==
    /\ isSweeping = TRUE
    /\ resState = createInitialState
    /\ reservoirData = << >>
    /\ mse = 0
    /\ currentWeights = <<0, 0, 0, 0>>
    /\ loops = StartLoop({}, createInitialState)
    /\ resObs = ResObsInit

\* animate, reservoir branch, lines 59-117: one animation frame of the
\* closure l, up to the setTimeout call
animate(l) ==
    LET xt       == gen.val
        xt_tau   == DelayedTerm(gen.history)
        u_t      == xt + Delta(xt, xt_tau)
        pushed   == Append(gen.history, u_t)
        clampedVoltage == Drive(u_t)
        next     == stepSimulation(clampedVoltage, resState)
        hasLast  == reservoirData # << >>
        lastPoint == reservoirData[Len(reservoirData)]
        A        == l.closure.amplitude
        args     == IF hasLast
                    THEN [kind |-> "lastPoint", input |-> lastPoint.input,
                          A |-> lastPoint.reservoirState, target |-> u_t]
                    ELSE [kind |-> "priming", input |-> u_t,
                          A |-> A, target |-> u_t]
        tr       == train(weights, args.input, args.A, args.target)
        currentPrediction == predict(tr.weights, u_t, A)
        newData  == Append(reservoirData,
                           [step |-> Len(reservoirData), input |-> u_t,
                            reservoirState |-> A,
                            prediction |-> currentPrediction, target |-> 0])
    IN  /\ l \in loops
        /\ l.phase = "raf"
        /\ gen' = [gen EXCEPT
                     !.val = u_t,
                     !.history = IF Len(pushed) > HISTORY_CAP
                                 THEN Tail(pushed) ELSE pushed]
        /\ resState' = next
        /\ weights' = tr.weights
        /\ mse' = IF hasLast THEN MovingAverage(mse, tr.error) ELSE mse
        /\ currentWeights' = tr.weights
        /\ reservoirData' = IF Len(newData) > WINDOW_SIZE
                            THEN Tail(newData) ELSE newData
        /\ loops' = (loops \ {l})
                       \cup {[l EXCEPT !.phase = "timer", !.ref = FALSE]}
        /\ resObs' = [op |-> "animate", steps |-> resObs.steps + 1,
                      reruns |-> resObs.reruns, resets |-> resObs.resets,
                      u |-> u_t, drive |-> clampedVoltage, stepped |-> next,
                      A |-> A, train |-> args,
                      prevU |-> resObs.u, prevA |-> resObs.A]
        /\ UNCHANGED <<bitVars, cfgVars, sweepVars, memVars, genObs, genPast, roObs, isSweeping>>

\* lines 118-122: the timeout of the closure l fires; the isSweeping it
\* tests is the one it captured, which is true
timeout(l) ==
    /\ l \in loops
    /\ l.phase = "timer"
    /\ loops' = {[k EXCEPT !.ref = FALSE] : k \in loops \ {l}}
                   \cup {[l EXCEPT !.phase = "raf", !.ref = TRUE]}
    /\ UNCHANGED <<bitVars, cfgVars, sweepVars, memVars, genVars, roVars, isSweeping, resState,
                   reservoirData, mse, currentWeights, resObs>>

\* line 340: the speed slider moves; the effect is cleaned up and run again
setSpeed ==
    /\ resObs.reruns < MaxReruns
    /\ loops' = IF isSweeping
                THEN StartLoop(Cleanup(loops), resState)
                ELSE Cleanup(loops)
    /\ resObs' = [resObs EXCEPT !.reruns = @ + 1]
    /\ UNCHANGED <<bitVars, cfgVars, sweepVars, memVars, genVars, roVars, isSweeping, resState,
                   reservoirData, mse, currentWeights>>

\* line 375: setIsSweeping(!isSweeping), then the effect
toggleSweep ==
    /\ resObs.reruns < MaxReruns
    /\ isSweeping' = ~isSweeping
    /\ loops' = IF isSweeping
                THEN Cleanup(loops)
                ELSE StartLoop(Cleanup(loops), resState)
    /\ resObs' = [resObs EXCEPT !.reruns = @ + 1]
    /\ UNCHANGED <<bitVars, cfgVars, sweepVars, memVars, genVars, roVars, resState, reservoirData,
                   mse, currentWeights>>

\* the assignments of resetAll, lines 168-176
ResetPipeline ==
    /\ simState' = createInitialState
    /\ calls' = << >>
    /\ scen' = ScenStart
    /\ writeRead' = WriteReadInit
    /\ trig' = "none"
    /\ gen' = [history |-> [i \in 1..SEED_LEN |-> Seed], t |-> 0, val |-> Seed]
    /\ weights' = <<0, 0, 0, 0>>
    /\ reservoirData' = << >>
    /\ resState' = createInitialState
    /\ mse' = 0
    /\ currentWeights' = <<0, 0, 0, 0>>
    /\ resObs' = [ResObsInit EXCEPT !.reruns = resObs.reruns,
                                   !.resets = resObs.resets + 1]
    /\ UNCHANGED <<bitVars, cfgVars, sweepVars, genObs, genPast, roObs>>

\* line 387: the Reset button; resetAll (lines 166-177), then the effect if
\* isSweeping has changed
resetAllReservoir ==
    /\ resObs.resets < MaxPipelineResets
    /\ ResetPipeline
    /\ isSweeping' = FALSE
    /\ loops' = IF isSweeping THEN Cleanup(loops) ELSE loops

\* line 204: the Reservoir Computing button in reservoir mode: resetAll and
\* setIsSweeping(true) in one batch; the effect runs only if isSweeping was
\* false
selectReservoir ==
    /\ resObs.resets < MaxPipelineResets
    /\ ResetPipeline
    /\ isSweeping' = TRUE
    /\ loops' = IF isSweeping THEN loops
                ELSE StartLoop(Cleanup(loops), createInitialState)

(***************************************************************************)
(* The 4-bit memory (part_004:7-60)                                        *)
(*   bits   the React state bits: BIT_COUNT SimulationStates               *)
(***************************************************************************)
BIT_COUNT == 4
BitIndex == 0..(BIT_COUNT - 1)

\* the slider positions taken for the bits: both ends and the middle
BitDrives == {VOLTAGE_MIN, 0, VOLTAGE_MAX}

\* part_004:20-22
BitsInit == bits = [i \in BitIndex |-> createInitialState]

\* the frame of the actions on bits
BitsFrame ==
    UNCHANGED <<memVars, genVars, roVars, resVars, cfgVars, sweepVars>>

handleBitVoltageChangeAt_allBits(index, newVoltage) ==
    /\ bits' = [j \in BitIndex |-> stepSimulation(newVoltage, bits[j])]
    /\ BitsFrame

\* part_004:25-31, handleBitVoltageChange(index, newVoltage)
handleBitVoltageChangeAt(index, newVoltage) ==
    /\ bits' = [bits EXCEPT ![index] = stepSimulation(newVoltage, bits[index])]
    /\ BitsFrame

\* part_004:34-56, pulseBit(index, targetValue)
pulseBitAt(index, targetValue) ==
    LET pulse == IF targetValue = "1" THEN (15 * VScale) \div 10
                 ELSE -((15 * VScale) \div 10)
        currentState == stepSimulation(0, stepSimulation(pulse, bits[index]))
    IN  /\ bits' = [bits EXCEPT ![index] = currentState]
        /\ BitsFrame

\* part_004:58-60, resetAll
resetAllBits ==
    /\ bits' = [i \in BitIndex |-> createInitialState]
    /\ BitsFrame

(***************************************************************************)
(* The sweep App (src/unnamed/part_003:76-138): one SimulationState,       *)
(* simState, driven by the slider, the auto-sweep and the reset button;    *)
(* its CONSTANTS fields FREQ_BASE and AMP_BASE are those of src/types.ts.  *)
(*   isAutoPlaying   the React state of that name                          *)
(* The observers calls and trig follow its stepSimulation calls.           *)
(***************************************************************************)
FREQ_BASE == 10330
AMP_BASE == 160

\* the integer square root of x, by bisection of lo..hi (x < 2^30)
RECURSIVE Bisect(_, _, _)
Bisect(x, lo, hi) ==
    IF lo = hi THEN lo
    ELSE LET mid == (lo + hi + 1) \div 2
         IN  IF mid * mid <= x THEN Bisect(x, mid, hi) ELSE Bisect(x, lo, mid - 1)

ISqrt(x) == Bisect(x, 0, 32767)

\* part_003:136-138: 16 - 3 * Math.pow(Math.abs(v - 0.2), 1.5)
calculateInitialAmp(v) ==
    LET x == Abs(v - (2 * VScale) \div 10)
    IN  160 * VScale * VScale - 3 * ((10 * x * ISqrt(x * VScale * 10000)) \div 100)

\* part_003:80-86
SweepInitialState ==
    [voltage   |-> 0,
     frequency |-> FREQ_BASE * VScale,
     amplitude |-> AMP_BASE * VScale * VScale,
     branch    |-> "lower",
     direction |-> "stationary"]

\* part_003:118-123
handleSliderChange(newVoltage) ==
    LET c == Call(newVoltage, simState)
    IN  /\ isAutoPlaying' = FALSE
        /\ simState' = c.after
        /\ calls' = <<c>>
        /\ trig' = TrigStep(trig, c)
        /\ UNCHANGED <<scen, writeRead, genVars, roVars, resVars, bitVars,
                       cfgVars>>

\* part_003:94-105: one frame of the auto-sweep, at a voltage of the sine
animateSweep(voltage) ==
    LET c == Call(voltage, simState)
    IN  /\ isAutoPlaying
        /\ simState' = c.after
        /\ calls' = <<c>>
        /\ trig' = TrigStep(trig, c)
        /\ UNCHANGED <<scen, writeRead, genVars, roVars, resVars, bitVars,
                       cfgVars, isAutoPlaying>>

\* part_003:253
toggleAuto ==
    /\ isAutoPlaying' = ~isAutoPlaying
    /\ UNCHANGED <<memVars, genVars, roVars, resVars, bitVars, cfgVars>>

\* part_003:125-134
handleReset ==
    /\ isAutoPlaying' = FALSE
    /\ simState' = [voltage   |-> 0,
                    frequency |-> FREQ_BASE * VScale,
                    amplitude |-> calculateInitialAmp(0),
                    branch    |-> "lower",
                    direction |-> "stationary"]
    /\ calls' = << >>
    /\ trig' = "none"
    /\ UNCHANGED <<scen, writeRead, genVars, roVars, resVars, bitVars,
                   cfgVars>>

(***************************************************************************)
(* Construction under a configuration.  The source fixes its configuration *)
(* in literals: the thresholds in CONSTANTS (part_000), the scale 20 in    *)
(* ReadoutLayer.predict and train, the cap 300 and tau = 17 in             *)
(* MackeyGlassGenerator.  The model builds the three components with other *)
(* values in the place of these literals and follows what the code then    *)
(* does: no constructor and no function of physicsEngine.ts has a throw.   *)
(*   built   the components built last: the configuration, the error       *)
(*           construction raised ("none": it has no throw), the state      *)
(*           machine's voltage, branch and direction, the length of the    *)
(*           generator's history, and the kind of value predict returned   *)
(***************************************************************************)
ThresholdsUp == {THRESHOLD_DOWN, 0, THRESHOLD_UP}
ThresholdsDown == {THRESHOLD_DOWN, THRESHOLD_UP, VOLTAGE_MAX}
Scales == {-READOUT_SCALE, 0, READOUT_SCALE}
Caps == {tau - 1, tau, tau + 1, HISTORY_CAP}

NotBuilt ==
    [made |-> FALSE, thresholdUp |-> THRESHOLD_UP,
     thresholdDown |-> THRESHOLD_DOWN, scale |-> READOUT_SCALE,
     cap |-> HISTORY_CAP, error |-> "none", voltage |-> 0, branch |-> "lower",
     direction |-> "stationary", history |-> 0, prediction |-> "none"]

ConfigInit == built = NotBuilt

ConfigFrame ==
    UNCHANGED <<memVars, genVars, roVars, resVars, bitVars, sweepVars>>

\* createInitialState, new ReadoutLayer(), new MackeyGlassGenerator()
\* (physicsEngine.ts:85-90: 200 seeds whatever the cap); the components are
\* module singletons, built once (part_005:11-14)
construct(thresholdUp, thresholdDown, scale, cap) ==
    /\ ~built.made
    /\ built' = [made |-> TRUE, thresholdUp |-> thresholdUp,
                 thresholdDown |-> thresholdDown, scale |-> scale,
                 cap |-> cap, error |-> "none", voltage |-> 0,
                 branch |-> "lower", direction |-> "stationary",
                 history |-> SEED_LEN, prediction |-> "none"]
    /\ ConfigFrame

\* physicsEngine.ts:39-70 with the thresholds of the configuration
stepBuilt(targetVoltage) ==
    LET dir == direction(targetVoltage, built.voltage)
        b == IF dir = "increasing" /\ targetVoltage >= built.thresholdUp
                 THEN "upper"
             ELSE IF dir = "decreasing" /\ targetVoltage <= built.thresholdDown
                 THEN "lower"
             ELSE built.branch
    IN  /\ built.made
        /\ built' = [built EXCEPT !.voltage = targetVoltage, !.branch = b,
                                  !.direction = dir]
        /\ ConfigFrame

\* physicsEngine.ts:92-106 with the cap of the configuration: one push, and
\* one shift when the length exceeds the cap
nextBuilt ==
    /\ built.made
    /\ built' = [built EXCEPT !.history =
                     IF built.history + 1 > built.cap THEN built.history
                     ELSE built.history + 1]
    /\ ConfigFrame

\* physicsEngine.ts:125-135 with the scale of the configuration: the
\* division reservoirState / scale gives Infinity for scale 0, which the
\* zero weights turn into NaN
predictBuilt ==
    /\ built.made
    /\ built' = [built EXCEPT !.prediction =
                     IF built.scale = 0 THEN "NaN" ELSE "number"]
    /\ ConfigFrame

(***************************************************************************)
(* Specifications                                                          *)
(***************************************************************************)
Init ==
    /\ MemInit /\ GenInit /\ ReadoutInit /\ ResInit /\ BitsInit /\ ConfigInit
    /\ isAutoPlaying = FALSE

\* the memory bit
Next ==
    \/ \E v \in Drives : handleBitVoltageChange(v)
    \/ \E w \in {"0", "1"} : pulseBit(w)
    \/ resetAll

Spec == Init /\ [][Next]_vars

\* the generator on its own
NextGen ==
    \/ MackeyGlassNext
    \/ MackeyGlassReset

SpecGen == Init /\ [][NextGen]_vars

\* the readout on its own
NextReadout ==
    \/ \E u \in Inputs, A \in Amplitudes : ReadoutPredict(u, A)
    \/ \E u \in Inputs, A \in Amplitudes, target \in Targets :
          ReadoutTrain(u, A, target)
    \/ ReadoutReset

SpecReadout == Init /\ [][NextReadout]_vars

\* reservoir mode
NextReservoir ==
    \/ \E l \in loops : resObs.steps < MaxSteps /\ animate(l)
    \/ \E l \in loops : timeout(l)
    \/ setSpeed
    \/ toggleSweep
    \/ resetAllReservoir
    \/ selectReservoir

SpecReservoir == Init /\ [][NextReservoir]_vars

\* reservoir mode left alone: the loop started on entry runs frame after
\* frame, no button and no slider is touched
NextReservoirRun ==
    \/ \E l \in loops : resObs.steps < MaxFrames /\ animate(l)
    \/ \E l \in loops : timeout(l)

SpecReservoirRun == Init /\ [][NextReservoirRun]_vars

SweepInit ==
    /\ simState = SweepInitialState
    /\ calls = << >>
    /\ scen = ScenStart
    /\ writeRead = WriteReadInit
    /\ trig = "none"
    /\ isAutoPlaying = FALSE
    /\ GenInit /\ ReadoutInit /\ ResInit /\ BitsInit /\ ConfigInit

\* the sweep App; the slider is bounded by VOLTAGE_MIN and VOLTAGE_MAX
\* (part_003:235-236), the sine by its amplitude 1.4
NextSweep ==
    \/ \E v \in {d \in Drives : VOLTAGE_MIN <= d /\ d <= VOLTAGE_MAX} :
          handleSliderChange(v)
    \/ \E v \in {d \in Drives : Abs(d) * 10 <= 14 * VScale} : animateSweep(v)
    \/ toggleAuto
    \/ handleReset

SpecSweep == SweepInit /\ [][NextSweep]_vars

\* the 4-bit memory
NextBits ==
    \/ \E i \in BitIndex, v \in BitDrives : handleBitVoltageChangeAt(i, v)
    \/ \E i \in BitIndex, w \in {"0", "1"} : pulseBitAt(i, w)
    \/ resetAllBits

SpecBits == Init /\ [][NextBits]_vars

\* construction under a configuration, and use of what was built
NextConfig ==
    \/ \E up \in ThresholdsUp, down \in ThresholdsDown, scale \in Scales,
          cap \in Caps : construct(up, down, scale, cap)
    \/ \E v \in BitDrives : stepBuilt(v)
    \/ nextBuilt
    \/ predictBuilt

SpecConfig == Init /\ [][NextConfig]_vars

(***************************************************************************)
(* Properties of the hysteresis state machine (Spec)                       *)
(***************************************************************************)
Between(v) == THRESHOLD_DOWN < v /\ v < THRESHOLD_UP

TriggerUp(c)   == c.target > c.before.voltage /\ c.target >= THRESHOLD_UP
TriggerDown(c) == c.target < c.before.voltage /\ c.target <= THRESHOLD_DOWN

CallsMade == {calls[i] : i \in DOMAIN calls}

\* C1: every stepSimulation call yields branch Upper when the target is above
\* the previous voltage and at or above THRESHOLD_UP, otherwise Lower when the
\* target is below the previous voltage and at or below THRESHOLD_DOWN,
\* otherwise the previous branch; so the branch differs across a call only
\* when one of the two triggers held.
C1_TransitionRule ==
    \A c \in CallsMade :
        /\ c.after.branch = IF TriggerUp(c) THEN "upper"
                            ELSE IF TriggerDown(c) THEN "lower"
                            ELSE c.before.branch
        /\ c.after.branch # c.before.branch => TriggerUp(c) \/ TriggerDown(c)

\* a flip in each direction has been observed: the bit was written 1 from
\* Lower, and the last handler then took it back to Lower
C1_Witness ==
    /\ writeRead["1"].done /\ writeRead["1"].from = "lower"
    /\ \E c \in CallsMade : c.before.branch = "upper" /\ c.after.branch = "lower"

\* C2: a step to a drive strictly between the two thresholds never changes
\* the branch (so at such a drive either branch can be the active one).
C2_Memory ==
    \A c \in CallsMade : Between(c.target) => c.after.branch = c.before.branch

\* both branches have been read at the same drive 0 V, and the last step moved
\* to a drive strictly between the thresholds while on branch Upper
C2_Witness ==
    /\ writeRead["0"].done /\ writeRead["0"].branch = "lower"
    /\ writeRead["1"].done /\ writeRead["1"].branch = "upper"
    /\ Len(calls) = 1
    /\ Between(calls[1].target)
    /\ calls[1].target # calls[1].before.voltage
    /\ calls[1].target # 0
    /\ simState.branch = "upper"

\* C3: the amplitude read at 0 V after sweeping down past THRESHOLD_DOWN from
\* branch Upper differs from the amplitude read at 0 V after sweeping up past
\* THRESHOLD_UP from branch Lower.
C3_AmplitudeAtZeroDistinguishes ==
    (/\ writeRead["0"].done /\ writeRead["0"].from = "upper"
     /\ writeRead["1"].done /\ writeRead["1"].from = "lower")
    => writeRead["0"].amplitude # writeRead["1"].amplitude

\* C4: an increasing step to exactly THRESHOLD_UP sets branch Upper and an
\* increasing step to a target strictly below THRESHOLD_UP never turns Lower
\* into Upper; a decreasing step to exactly THRESHOLD_DOWN sets branch Lower
\* and a decreasing step to a target strictly above THRESHOLD_DOWN never turns
\* Upper into Lower.
C4_ThresholdInclusive ==
    \A c \in CallsMade :
        /\ (c.target > c.before.voltage /\ c.target = THRESHOLD_UP)
              => c.after.branch = "upper"
        /\ (c.target > c.before.voltage /\ c.target < THRESHOLD_UP
            /\ c.before.branch = "lower")
              => c.after.branch = "lower"
        /\ (c.target < c.before.voltage /\ c.target = THRESHOLD_DOWN)
              => c.after.branch = "lower"
        /\ (c.target < c.before.voltage /\ c.target > THRESHOLD_DOWN
            /\ c.before.branch = "upper")
              => c.after.branch = "upper"

\* the bit went up to just below THRESHOLD_UP on Lower and the last step took
\* it from there to exactly THRESHOLD_UP
C4_Witness ==
    /\ Len(calls) = 1
    /\ calls[1].before.voltage = THRESHOLD_UP - 1
    /\ calls[1].before.branch = "lower"
    /\ calls[1].before.direction = "increasing"
    /\ calls[1].target = THRESHOLD_UP
    /\ simState.branch = "upper"

\* C5: a step whose target equals the previous drive is Stationary and leaves
\* the branch unchanged, wherever that drive lies relative to the thresholds.
C5_NoFlipWithoutDirection ==
    \A c \in CallsMade :
        c.target = c.before.voltage =>
            /\ c.after.direction = "stationary"
            /\ c.after.branch = c.before.branch

\* a drive at or beyond THRESHOLD_UP has been repeated
C5_Witness ==
    \E c \in CallsMade :
        /\ c.target = c.before.voltage
        /\ c.target >= THRESHOLD_UP

\* C6: the end-to-end drive sequence, applied from drive 0 on branch Lower,
\* changes the branch to Upper exactly once and to Lower exactly once and
\* ends on branch Lower.
C6_ScenarioFlipCounts ==
    scen.idx = Len(Scenario) =>
        /\ Len(scen.upAt) = 1
        /\ Len(scen.downAt) = 1
        /\ simState.branch = "lower"

C6_Witness ==
    /\ scen.idx = Len(Scenario)
    /\ simState.voltage = 0
    /\ simState.direction = "increasing"

\* C7 as stated: in the end-to-end sequence the flip to Upper happens on the
\* step that applies the second 1.1 (position 5) and the flip to Lower on the
\* step that applies the second -0.9 (position 9).
C7_FlipsAtSecondArrival ==
    scen.idx = Len(Scenario) => scen.upAt = <<5>> /\ scen.downAt = <<9>>

\* C7 as amended: the flip to Upper happens on the step that applies the first
\* 1.1 (position 4) and the flip to Lower on the step that applies the first
\* -0.9 (position 8); the repeated values are Stationary steps.
C7_FlipsAtFirstArrival ==
    /\ scen.idx >= 4 => scen.upAt = <<4>>
    /\ scen.idx >= 8 => scen.downAt = <<8>>
    /\ (scen.idx \in {5, 9} /\ Len(calls) = 1)
          => calls[1].after.direction = "stationary"

C7_Witness ==
    /\ scen.idx = 9
    /\ Len(calls) = 1
    /\ calls[1].target = THRESHOLD_DOWN
    /\ calls[1].before.voltage = THRESHOLD_DOWN
    /\ scen.upAt = <<4>>

\* C8: the state a stepSimulation call returns has the target as its voltage,
\* the direction given by comparing the target with the previous voltage, and
\* frequency and amplitude computed at the target with the branch after the
\* transition.
C8_StepPostcondition ==
    \A c \in CallsMade :
        /\ c.after.voltage = c.target
        /\ c.after.direction =
              IF c.target > c.before.voltage THEN "increasing"
              ELSE IF c.target < c.before.voltage THEN "decreasing"
              ELSE "stationary"
        /\ c.after.frequency = calculateFrequency(c.target, c.after.branch)
        /\ c.after.amplitude = calculateAmplitude(c.target, c.after.branch)

\* a call outside [VOLTAGE_MIN, VOLTAGE_MAX] that changed the branch, where
\* the old branch would have given another frequency and another amplitude
C8_Witness ==
    \E c \in CallsMade :
        /\ c.target > VOLTAGE_MAX
        /\ c.after.branch # c.before.branch
        /\ c.after.frequency # calculateFrequency(c.target, c.before.branch)
        /\ c.after.amplitude # calculateAmplitude(c.target, c.before.branch)

(***************************************************************************)
(* Properties of the generator (SpecGen)                                   *)
(***************************************************************************)
\* output of the k-th next() call since construction or reset; the seed for
\* k <= 0
Output(k) == IF k >= 1 THEN genObs.outs[k] ELSE Seed

\* C10: the delayed term a next() call uses is the value held tau steps
\* before the current value x(t), i.e. the output of the call made tau calls
\* before the call that produced x(t) (the seed when there is none), and the
\* new value is x(t) + beta*x(t-tau)/(1 + x(t-tau)^n) - gamma*x(t).
C10_DelayIsTau ==
    genObs.calls >= 1 =>
        /\ genObs.xt = Output(genObs.calls - 1)
        /\ genObs.xt_tau = Output(genObs.calls - 1 - tau)
        /\ gen.val = genObs.xt + Delta(genObs.xt, genObs.xt_tau)

\* the most recent HISTORY_CAP of the seed entries followed by all outputs
\* since construction or reset
Window ==
    LET all == [i \in 1..SEED_LEN |-> Seed] \o genObs.outs
        k   == Len(all)
        m   == IF k > HISTORY_CAP THEN HISTORY_CAP ELSE k
    IN  SubSeq(all, k - m + 1, k)

\* C11: after every operation the history holds at most HISTORY_CAP and more
\* than tau entries, it is the most recent window of seeds and outputs (the
\* oldest entry is the one discarded), the delay lookup index lies inside
\* it, and the entry found there is not one that makes the lookup fall back
\* to the seed constant.
C11_SlidingWindow ==
    /\ Len(gen.history) <= HISTORY_CAP
    /\ Len(gen.history) > tau
    /\ gen.history = Window
    /\ (Len(gen.history) - tau + 1) \in DOMAIN gen.history
    /\ gen.history[Len(gen.history) - tau + 1] # 0

\* the cap has been exceeded and entries have been discarded, after a reset
C11_Witness ==
    /\ genObs.calls > HISTORY_CAP - SEED_LEN + tau
    /\ Len(gen.history) = HISTORY_CAP
    /\ genPast.resets >= 1

Min(a, b) == IF a < b THEN a ELSE b

\* C12: when no next() call has been made since construction or reset the
\* generator equals a freshly constructed one (history, val, t), and the
\* outputs after a reset repeat the outputs of the run before it, call by
\* call.
C12_ResetRestoresSequence ==
    /\ genObs.calls = 0 => gen = MackeyGlassGenerator
    /\ genPast.resets >= 1 =>
          \A k \in 1..Min(Len(genObs.outs), Len(genPast.outs)) :
              genObs.outs[k] = genPast.outs[k]

\* a run long enough to use its own outputs as delayed terms was reset and
\* the run after the reset is as long
C12_Witness ==
    /\ genPast.resets >= 1
    /\ Len(genPast.outs) > 2 * tau
    /\ genObs.calls > 2 * tau
    /\ genObs.outs[2 * tau] # Seed


(***************************************************************************)
(* Properties of the readout layer (SpecReadout)                           *)
(***************************************************************************)
\* the feature vector [1, u, A/20, (A/20)^2] on the grid
FeatureVector(u, A) ==
    <<GScale, u, Scaled(A), (Scaled(A) * Scaled(A)) \div GScale>>

\* C13: train(u, A, target) returns target minus the prediction that
\* predict(u, A) gives on the weights as they were before the call, and
\* replaces every weight i by weight_i + learningRate * error * feature_i
\* with that one returned error.
C13_TrainContract ==
    roObs.op = "train" =>
        /\ roObs.out = roObs.target - predict(roObs.before, roObs.u, roObs.A)
        /\ \A i \in 1..4 :
              weights[i] = roObs.before[i]
                           + (learningRate * roObs.out
                              * FeatureVector(roObs.u, roObs.A)[i])
                             \div (100 * GScale)

C13_Witness ==
    /\ roObs.op = "train"
    /\ roObs.before # ZeroWeights
    /\ roObs.out # 0
    /\ roObs.out # roObs.target
    /\ \A i \in 1..4 : weights[i] # roObs.before[i]

\* C14: predict leaves the weight vector as it found it; the weights differ
\* from what the last operation found only if that operation was train or
\* reset.
C14_PredictHasNoSideEffects ==
    /\ roObs.op = "predict" => weights = roObs.before
    /\ weights # roObs.before => roObs.op \in {"train", "reset"}

C14_Witness ==
    /\ roObs.op = "predict"
    /\ roObs.trains >= 2
    /\ weights # ZeroWeights
    /\ roObs.out # 0

\* the last train call repeated the sample of every train call since the
\* weights were zero, and was not the first of them
Repeated ==
    /\ roObs.op = "train"
    /\ roObs.same
    /\ roObs.trains >= 2

\* C17 as stated: for every sample, the error of a repeated train call is
\* never larger in absolute value than the error of the call before it.
C17_ErrorNeverGrows ==
    Repeated => Abs(roObs.out) <= Abs(roObs.prevErr)

\* learningRate * |features|^2 < 2
Stable(u, A) ==
    LET f == FeatureVector(u, A)
    IN  learningRate * (f[1] * f[1] + f[2] * f[2] + f[3] * f[3] + f[4] * f[4])
        < 200 * GScale * GScale

\* the error below which a weight increment is lost in the grid
Resolution == 100 \div learningRate

\* C17, amended: for a sample with learningRate * |features|^2 < 2, the
\* error of a repeated train call is strictly smaller in absolute value than
\* the error of the call before it as long as that one is at least the
\* resolution of the grid, and stays below the resolution afterwards.
C17_ErrorShrinksWhenStable ==
    (Repeated /\ Stable(roObs.u, roObs.A)) =>
        /\ Abs(roObs.prevErr) >= Resolution =>
              Abs(roObs.out) < Abs(roObs.prevErr)
        /\ Abs(roObs.prevErr) < Resolution =>
              Abs(roObs.out) < Resolution

C17_Witness ==
    /\ Repeated
    /\ Stable(roObs.u, roObs.A)
    /\ Abs(roObs.prevErr) >= Resolution
    /\ Abs(roObs.out) < Resolution

\* C18: a constructed readout and a reset readout hold [0, 0, 0, 0]; on
\* them predict returns 0 and train returns its target.
C18_ZeroState ==
    /\ roObs.origin \in {"constructed", "reset"} => weights = <<0, 0, 0, 0>>
    /\ roObs.op = "reset" => weights = <<0, 0, 0, 0>>
    /\ (roObs.op = "predict" /\ roObs.ranOn # "trained") => roObs.out = 0
    /\ (roObs.op = "train" /\ roObs.ranOn # "trained") =>
          roObs.out = roObs.target

C18_Witness ==
    /\ roObs.op = "train"
    /\ roObs.ranOn = "reset"
    /\ roObs.target # 0


(***************************************************************************)
(* Properties of the response model (Spec)                                 *)
(***************************************************************************)
Other(branch) == IF branch = "upper" THEN "lower" ELSE "upper"

\* the drives the functions are evaluated at: every drive of the grid and
\* the drive the state holds
Evaluated == Drives \cup {simState.voltage}

\* C19: at every drive the frequency of branch Upper exceeds or falls short
\* of the frequency of branch Lower by one and the same non-zero amount,
\* FREQ_UPPER_BASE - FREQ_LOWER_BASE, and the frequency the state holds is
\* that of its own branch and not that of the other branch.
C19_FrequencyTwoLevel ==
    /\ FREQ_UPPER_BASE # FREQ_LOWER_BASE
    /\ \A v \in Evaluated :
          calculateFrequency(v, "upper") - calculateFrequency(v, "lower")
              = (FREQ_UPPER_BASE - FREQ_LOWER_BASE) * VScale
    /\ simState.frequency = calculateFrequency(simState.voltage, simState.branch)
    /\ simState.frequency
          # calculateFrequency(simState.voltage, Other(simState.branch))

C19_Witness ==
    /\ calls # << >>
    /\ simState.branch = "upper"
    /\ simState.voltage < 0
    /\ simState.frequency < FREQ_UPPER_BASE * VScale

C15_TrainsPreviousAgainstCurrent ==
    resObs.op = "animate" =>
        /\ resObs.train.kind = "lastPoint"
        /\ resObs.train.input = resObs.prevU
        /\ resObs.train.A = resObs.prevA
        /\ resObs.train.target = resObs.u

\* C16: the amplitude an animation frame hands to the readout is the
\* amplitude of the state that frame's step of the state machine produced.
C16_AmplitudeOfSteppedState ==
    resObs.op = "animate" => resObs.A = resObs.stepped.amplitude


(***************************************************************************)
(* Properties of the write operation and of the branch (Spec)              *)
(***************************************************************************)
\* the branch that stores the written value: part_004:62-66
BranchOf(targetValue) == IF targetValue = "1" THEN "upper" ELSE "lower"

\* C21: whatever voltage and branch the bit has, pulseBit('1') leaves it at
\* voltage 0 on branch Upper and pulseBit('0') at voltage 0 on branch Lower;
\* on a bit that is already at voltage 0 on the written branch the write
\* changes neither.
C21_WriteSetsBit ==
    [][\A w \in {"0", "1"} :
          pulseBit(w) =>
              /\ simState'.voltage = 0
              /\ simState'.branch = BranchOf(w)
              /\ (simState.voltage = 0 /\ simState.branch = BranchOf(w)) =>
                    /\ simState'.voltage = simState.voltage
                    /\ simState'.branch = simState.branch]_vars

C21_Witness ==
    /\ Len(calls) = 2
    /\ calls[1].target = -150
    /\ calls[1].before.branch = "upper"
    /\ calls[1].before.voltage >= THRESHOLD_UP
    /\ simState.voltage = 0
    /\ simState.branch = "lower"
    /\ writeRead["1"].done


\* C25: in every reachable state a voltage at or above THRESHOLD_UP goes
\* with branch Upper and a voltage at or below THRESHOLD_DOWN with branch
\* Lower.
C25_BeyondThreshold ==
    /\ simState.voltage >= THRESHOLD_UP => simState.branch = "upper"
    /\ simState.voltage <= THRESHOLD_DOWN => simState.branch = "lower"
    /\ \A c \in CallsMade :
          /\ c.after.voltage >= THRESHOLD_UP => c.after.branch = "upper"
          /\ c.after.voltage <= THRESHOLD_DOWN => c.after.branch = "lower"

C25_Witness ==
    /\ simState.voltage > THRESHOLD_UP
    /\ simState.direction = "decreasing"
    /\ trig = "up"
    /\ writeRead["0"].done

\* C26: the branch is Upper if the last triggering call was of the
\* increasing kind, Lower if it was of the decreasing kind, and the initial
\* branch if there was none.
C26_BranchFromHistory ==
    simState.branch = IF trig = "up" THEN "upper"
                      ELSE IF trig = "down" THEN "lower"
                      ELSE createInitialState.branch

C26_Witness ==
    /\ trig = "up"
    /\ Len(calls) = 1
    /\ calls[1].target < calls[1].before.voltage
    /\ calls[1].target > THRESHOLD_DOWN
    /\ calls[1].target < 0
    /\ simState.branch = "upper"

\* C30: stepping to the drive the state already has changes nothing but the
\* direction, which becomes Stationary: for every reachable state s and
\* every drive v, the second of two steps to v returns the voltage, branch,
\* frequency and amplitude of the first.
C30_RepeatedStep ==
    /\ \A v \in Drives :
          LET once  == stepSimulation(v, simState)
              twice == stepSimulation(v, once)
          IN  /\ twice.voltage = once.voltage
              /\ twice.branch = once.branch
              /\ twice.frequency = once.frequency
              /\ twice.amplitude = once.amplitude
              /\ twice.direction = "stationary"
    /\ \A c \in CallsMade :
          c.target = c.before.voltage =>
              /\ c.after = [c.before EXCEPT !.direction = "stationary"]

C30_Witness ==
    /\ Len(calls) = 1
    /\ calls[1].target = calls[1].before.voltage
    /\ calls[1].before.direction = "increasing"
    /\ calls[1].target >= THRESHOLD_UP
    /\ simState.direction = "stationary"


(***************************************************************************)
(* Properties of the sweep App (SpecSweep)                                 *)
(***************************************************************************)
\* C24: every step that arrives at drive 0 from a positive voltage ends on
\* branch Upper, and every step that arrives at drive 0 from a negative
\* voltage ends on branch Lower.
C24_BranchAtZeroFollowsSide ==
    \A c \in CallsMade :
        c.target = 0 =>
            /\ c.before.voltage > 0 => c.after.branch = "upper"
            /\ c.before.voltage < 0 => c.after.branch = "lower"

\* C27: every state the application holds has the frequency and the
\* amplitude of its voltage and branch, and the state a reset installs is the
\* initial state.
C27_DerivedOutputsConsistent ==
    /\ simState.frequency
          = calculateFrequency(simState.voltage, simState.branch)
    /\ simState.amplitude
          = calculateAmplitude(simState.voltage, simState.branch)
    /\ calls = << >> => simState = SweepInitialState


(***************************************************************************)
(* Properties of the 4-bit memory (SpecBits)                               *)
(***************************************************************************)
\* C22: a slider change or a write pulse on bit i leaves every other bit j
\* as it was, in all five fields, whatever operations came before.
C22_BitsIndependent ==
    [][\A i \in BitIndex :
          (\/ \E v \in BitDrives : handleBitVoltageChangeAt(i, v)
           \/ \E w \in {"0", "1"} : pulseBitAt(i, w))
          => \A j \in BitIndex \ {i} : bits'[j] = bits[j]]_vars

\* the four bits in four different states: written 1, overdriven low,
\* untouched, and written 1 then moved to the top of the slider
C22_Witness ==
    /\ bits[0].voltage = 0 /\ bits[0].branch = "upper"
    /\ bits[1].voltage = VOLTAGE_MIN /\ bits[1].direction = "decreasing"
    /\ bits[2] = createInitialState
    /\ bits[3].voltage = VOLTAGE_MAX /\ bits[3].direction = "increasing"


(***************************************************************************)
(* Properties of construction (SpecConfig)                                 *)
(***************************************************************************)
Degenerate(c) ==
    \/ c.thresholdDown >= c.thresholdUp
    \/ c.scale <= 0
    \/ c.cap <= tau

C28_PauseStopsLoop ==
    [][\A l \in loops : animate(l) => isSweeping /\ loops = {l}]_vars

\* the reservoir pipeline as it is constructed
Fresh ==
    /\ gen = MackeyGlassGenerator
    /\ weights = ZeroWeights
    /\ reservoirData = << >>
    /\ resState = createInitialState

\* C29: resetAll leaves the generator as constructed, the weights zero, the
\* data window empty and the reservoir state initial, and once a reset has
\* happened a pipeline that is so and paused stays so until isSweeping becomes
\* true again (the first u after the restart is then the first output of a
\* fresh generator, next() being a function of the generator's state).
C29_ResetRestoresPipeline ==
    [][/\ resetAllReservoir => Fresh'
       /\ (resObs.resets > 0 /\ ~isSweeping /\ Fresh) => (Fresh' \/ isSweeping')
      ]_vars


InRange(v) == VOLTAGE_MIN <= v /\ v <= VOLTAGE_MAX

\* generator values around and far beyond the band the series moves in
Outputs == {(k * GScale) \div 10 : k \in -20..40}

\* C32: the drive computed from any generator output lies in
\* [VOLTAGE_MIN, VOLTAGE_MAX]; so does the drive of every animation frame, the
\* voltage of the state that frame's step produced, and the voltage of the
\* reservoir state in every state of the run.
C32_DriveClamped ==
    /\ \A u \in Outputs : InRange(Drive(u))
    /\ InRange(resState.voltage)
    /\ resObs.op = "animate" =>
          /\ resObs.drive = Drive(resObs.u)
          /\ InRange(resObs.drive)
          /\ resObs.stepped.voltage = resObs.drive
          /\ resState.voltage = resObs.drive

\* a frame whose scaled generator output lies below VOLTAGE_MIN: the clamp
\* has acted and the reservoir state sits at VOLTAGE_MIN
C32_Witness ==
    /\ resObs.op = "animate"
    /\ ((resObs.u - GScale) * 4 * VScale) \div GScale + VScale \div 10
          < VOLTAGE_MIN
    /\ resObs.drive = VOLTAGE_MIN
    /\ resState.voltage = VOLTAGE_MIN
    /\ resState.branch = "lower"


(***************************************************************************)
(* Properties of one LMS step (SpecReadout)                                *)
(***************************************************************************)
\* |features|^2 = 1 + u^2 + (A/20)^2 + (A/20)^4, in 1/GScale
SquaredNorm(u, A) ==
    LET f == FeatureVector(u, A)
    IN  (f[1] * f[1] + f[2] * f[2] + f[3] * f[3] + f[4] * f[4]) \div GScale

\* learningRate * e * |features|^2, the amount one step takes off the error e
\* (the squared norm is split at GScale to keep the products small)
Correction(e, u, A) ==
    LET whole == SquaredNorm(u, A) \div GScale
        part == SquaredNorm(u, A) % GScale
    IN  (learningRate * (e * whole + (e * part) \div GScale)) \div 100

\* what the truncations of the grid can add up to in the error after a step:
\* one unit per weight increment, weighted by its feature, and one unit for
\* each truncated quotient
Tolerance(u, A) ==
    LET f == FeatureVector(u, A)
    IN  (Abs(f[1]) + Abs(f[2]) + Abs(f[3]) + Abs(f[4])) \div GScale + 4

\* the errors e1 and e2 of two successive train calls on one sample obey
\* e2 = e1 * (1 - learningRate * |features|^2), and e2 is smaller in
\* magnitude for a sample with learningRate * |features|^2 < 2 and not
\* smaller otherwise, wherever the difference exceeds the tolerance
Contracts(e1, e2, u, A) ==
    LET m == Correction(e1, u, A)
        tol == Tolerance(u, A)
    IN  /\ Abs((e1 - e2) - m) <= tol
        /\ (Stable(u, A) /\ Abs(m) > tol /\ 2 * Abs(e1) - Abs(m) > tol)
              => Abs(e2) < Abs(e1)
        /\ (~Stable(u, A) /\ Abs(m) - 2 * Abs(e1) >= tol)
              => Abs(e2) >= Abs(e1)

\* C33: from the weights of every state and for every sample (u, A, target),
\* the error e2 returned by a second train call on the sample, which is also
\* target - predict(u, A) after the first, is e1 * (1 - learningRate *
\* (1 + u^2 + (A/20)^2 + (A/20)^4)) for the error e1 the first call
\* returned, and it is smaller in magnitude exactly for the samples with
\* learningRate * |features|^2 < 2; so are the errors of the last two train
\* calls made whenever they used the same sample.
C33_StepContraction ==
    /\ \A u \in Inputs, A \in Amplitudes, target \in Targets :
          LET first == train(weights, u, A, target)
              second == train(first.weights, u, A, target)
          IN  /\ second.error = target - predict(first.weights, u, A)
              /\ Contracts(first.error, second.error, u, A)
    /\ Repeated => Contracts(roObs.prevErr, roObs.out, roObs.u, roObs.A)

\* a third train call on a sample with learningRate * |features|^2 >= 2
\* (u = 10), whose error has grown, in steps larger than the tolerance
C33_Witness ==
    /\ Repeated
    /\ roObs.trains >= 3
    /\ ~Stable(roObs.u, roObs.A)
    /\ Abs(roObs.out) > Abs(roObs.prevErr) + Tolerance(roObs.u, roObs.A)
    /\ weights # ZeroWeights


(***************************************************************************)
(* Properties of the generator's history (SpecGen)                         *)
(***************************************************************************)
\* C34: in every state (constructed, after every next() and every reset())
\* the last element of the history is the current value val, and the element
\* k positions before the end is the value held k - 1 steps before the
\* current one: the output of the call k - 1 calls back, the seed before the
\* first call.
C34_HistoryEndsAtVal ==
    /\ gen.history # << >>
    /\ gen.history[Len(gen.history)] = gen.val
    /\ \A k \in 1..Len(gen.history) :
          gen.history[Len(gen.history) - k + 1]
              = Output(genObs.calls - (k - 1))

\* after a reset, enough calls for the history to have reached its cap and
\* dropped entries, the values far from the seed
C34_Witness ==
    /\ genPast.resets >= 1
    /\ genObs.calls > HISTORY_CAP - SEED_LEN
    /\ Len(gen.history) = HISTORY_CAP
    /\ gen.history[Len(gen.history)] = gen.val
    /\ gen.val # Seed
    /\ gen.history[Len(gen.history) - tau] # gen.val

====
